---- MODULE Spec2Model ----
(***************************************************************************)
(* Model of the Raft client of src/src/client.rs: the Client struct and    *)
(* the leader-discovery loop of Client::propose, together with the TCP     *)
(* connections it opens and the servers that answer on them.               *)
(*                                                                         *)
(* The client is sequential and blocking; one action is one step of        *)
(* propose between two suspension points.  Servers and the transport are   *)
(* the environment: which response a server gives and whether a connect,   *)
(* write or read succeeds is chosen nondeterministically.                  *)
(***************************************************************************)
EXTENDS Integers, Sequences, FiniteSets, TLC

\* ------------------------------------------------------------------ bounds
\* Number of propose calls made on the one Client.
MaxCalls == 3
\* Connection handles (like file descriptors, the smallest free one is
\* handed out and a closed one is handed out again).
MaxOpen == 2
\* The per-call request counters stop counting at ReqCap.
ReqCap == 3

\* Socket addresses servers listen on; the cluster is a subset of them.
Addr == {1, 2}
\* Values ClientId::new() may mint.
ClientIds == {11, 12}
\* Entries a caller may propose.
Payloads == {"Bears", "Bees"}

\* Option::None for a connection handle.
None == 0
ConnIds == 1..MaxOpen

\* ------------------------------------------------------------------- state
VARIABLES
    id,                 \* Client.id
    leader_connection,  \* Client.leader_connection: None or a handle
    cluster,            \* Client.cluster
    order,              \* the iteration order of the HashSet `cluster`
    entry,              \* propose: the argument `entry`
    message,            \* propose: the local `message`
    members,            \* propose: how many items `members` has yielded
    connection,         \* propose: the local `connection` of the loop body
    response,           \* propose: the last response read
    pc,                 \* propose: position of the call
    result,             \* what the last call returned
    conns,              \* the TCP connections, by handle
    wire,               \* the last message the client wrote
    calls,              \* number of calls started so far
    startedWith,        \* this call started with a retained connection
    drawn,              \* addresses `members` yielded in this call
    reqCount,           \* ProposalRequests sent per address in this call
    openedTo,           \* addresses connected to in this call
    openCount,          \* connections opened per address in this call
    answers,            \* kinds of response read in this call
    failed,             \* a connect, write, flush or read failed in this call
    prevResponse,       \* the response read before `response` in this call
    readOn,             \* handle on which `response` was read
    prevResult          \* what the call before the last one returned

clientVars == <<id, leader_connection, cluster, order>>
localVars  == <<entry, message, members, connection, response, pc, result>>
netVars    == <<conns, wire>>
histVars   == <<calls, startedWith, drawn, reqCount, openedTo, openCount,
                answers, failed, prevResponse, readOn, prevResult>>
vars == <<clientVars, localVars, netVars, histVars>>

\* ---------------------------------------------------------------- messages
client_connection_preamble(cid) == [kind |-> "ConnectionPreamble", id |-> cid]
proposal_request(e) == [kind |-> "ProposalRequest", entry |-> e]

NoResponse == [kind |-> "none", leader |-> None]
\* What a server may put in the frame the client reads at line 69:
\* the three proposal responses, a frame of another shape ("Other") and a
\* frame whose root cannot be read ("Malformed").
Responses ==
    {[kind |-> k, leader |-> None] :
        k \in {"Success", "UnknownLeader", "Other", "Malformed"}}
    \cup {[kind |-> "NotLeader", leader |-> a] : a \in Addr}

\* -------------------------------------------------------------- connections
ClosedConn == [open |-> FALSE, addr |-> None, pre |-> 0, preId |-> None,
               req |-> 0, last |-> "none", failed |-> FALSE]

Sat(n) == IF n < ReqCap THEN n + 1 ELSE ReqCap

\* The handle TcpStream::connect returns: the smallest free one.
FreeId(cs) ==
    CHOOSE c \in ConnIds :
        /\ ~cs[c].open
        /\ \A d \in ConnIds : ~cs[d].open => c <= d

\* TcpStream::connect(a) succeeded and returned handle c.
Connect(cs, c, a) ==
    [cs EXCEPT ![c] = [ClosedConn EXCEPT !.open = TRUE, !.addr = a]]

\* Variant of WritePreamble: the preamble carries a newly minted identity.
WritePreamble_Fresh(cs, c, cid) ==
    [cs EXCEPT ![c].pre = Sat(@),
               ![c].preId = CHOOSE x \in ClientIds : x # cid]

\* serialize::write_message(stream, preamble) succeeded on handle c.
WritePreamble(cs, c, cid) ==
    [cs EXCEPT ![c].pre = Sat(@), ![c].preId = cid]

\* serialize::write_message(connection, message) and flush succeeded.
WriteRequest(cs, c) == [cs EXCEPT ![c].req = Sat(@)]

\* An operation on handle c returned an io::Error.
MarkFailed(cs, c) == [cs EXCEPT ![c].failed = TRUE]

\* The stream with handle c is dropped (its socket is closed).
Drop(cs, c) == IF c = None THEN cs ELSE [cs EXCEPT ![c] = ClosedConn]

\* -------------------------------------------------------------------- Init
Orders(S) ==
    {s \in [1..Cardinality(S) -> S] :
        \A i, j \in 1..Cardinality(S) : i # j => s[i] # s[j]}

\* Client::new(cluster), before the first propose.
Init ==
    /\ id \in ClientIds
    /\ leader_connection = None
    /\ cluster \in SUBSET Addr
    /\ order \in Orders(cluster)
    /\ entry = "Bears"
    /\ message = proposal_request("Bears")
    /\ members = 0
    /\ connection = None
    /\ response = NoResponse
    /\ pc = "idle"
    /\ result = "none"
    /\ conns = [c \in ConnIds |-> ClosedConn]
    /\ wire = [to |-> None, msg |-> [kind |-> "none"]]
    /\ calls = 0
    /\ startedWith = FALSE
    /\ drawn = {}
    /\ reqCount = [a \in Addr |-> 0]
    /\ openedTo = {}
    /\ openCount = [a \in Addr |-> 0]
    /\ answers = {}
    /\ failed = FALSE
    /\ prevResponse = NoResponse
    /\ readOn = None
    /\ prevResult = "none"

\* ----------------------------------------------------------------- actions
\* `return r` from propose: the locals go out of scope.
Return(r) ==
    /\ pc' = "idle"
    /\ result' = r
    /\ connection' = None

\* Variant of FreshMembers: the iterator of the previous call is kept.
FreshMembers_Kept == members

\* members = self.cluster.iter().cloned(): a fresh iterator.
FreshMembers == 0

\* Variant of ProposeCall: the message of the previous call is sent again.
ProposeCall_StaleMessage ==
    /\ pc = "idle"
    /\ calls < MaxCalls
    /\ \E e \in Payloads : entry' = e
    /\ members' = FreshMembers
    /\ connection' = None
    /\ response' = NoResponse
    /\ pc' = "loop"
    /\ result' = "none"
    /\ calls' = calls + 1
    /\ startedWith' = (leader_connection # None)
    /\ drawn' = {}
    /\ reqCount' = [a \in Addr |-> 0]
    /\ openedTo' = {}
    /\ openCount' = [a \in Addr |-> 0]
    /\ answers' = {}
    /\ failed' = FALSE
    /\ prevResponse' = NoResponse
    /\ readOn' = None
    /\ prevResult' = result
    /\ UNCHANGED <<clientVars, message, netVars>>

\* The caller invokes client.propose(e) (lines 45-49).
ProposeCall ==
    /\ pc = "idle"
    /\ calls < MaxCalls
    /\ \E e \in Payloads :
        /\ entry' = e
        /\ message' = proposal_request(e)
    /\ members' = FreshMembers
    /\ connection' = None
    /\ response' = NoResponse
    /\ pc' = "loop"
    /\ result' = "none"
    /\ calls' = calls + 1
    /\ startedWith' = (leader_connection # None)
    /\ drawn' = {}
    /\ reqCount' = [a \in Addr |-> 0]
    /\ openedTo' = {}
    /\ openCount' = [a \in Addr |-> 0]
    /\ answers' = {}
    /\ failed' = FALSE
    /\ prevResponse' = NoResponse
    /\ readOn' = None
    /\ prevResult' = result
    /\ UNCHANGED <<clientVars, netVars>>

\* Variant of TakeExisting: a preamble is written on the reused connection.
TakeExisting_Preamble ==
    /\ pc = "loop"
    /\ leader_connection # None
    /\ connection' = leader_connection
    /\ leader_connection' = None
    /\ conns' = WritePreamble(conns, leader_connection, id)
    /\ wire' = [to |-> leader_connection,
                msg |-> client_connection_preamble(id)]
    /\ pc' = "send"
    /\ UNCHANGED <<id, cluster, order, entry, message, members, response,
                   result, histVars>>

\* self.leader_connection.take() is Some(cxn) (lines 52-56).
TakeExisting ==
    /\ pc = "loop"
    /\ leader_connection # None
    /\ connection' = leader_connection
    /\ leader_connection' = None
    /\ pc' = "send"
    /\ UNCHANGED <<id, cluster, order, entry, message, members, response,
                   result, netVars, histVars>>

\* Variant of IterDone: the iterator ends one item early.
IterDone_Early == members + 1 >= Len(order)

\* members.next() is None.
IterDone == members >= Len(order)

\* Variant of SearchExhausted: the stored connection is not looked at.
SearchExhausted_Eager ==
    /\ pc = "loop"
    /\ IterDone
    /\ Return("LeaderSearchExhausted")
    /\ UNCHANGED <<clientVars, entry, message, members, response, netVars,
                   histVars>>

\* take() is None and members.next() is None (line 58).
SearchExhausted ==
    /\ pc = "loop"
    /\ leader_connection = None
    /\ IterDone
    /\ Return("LeaderSearchExhausted")
    /\ UNCHANGED <<clientVars, entry, message, members, response, netVars,
                   histVars>>

\* Variant of Advance: an item is skipped.
Advance_Skip(m) == m + 2

\* Variant of Advance: the iterator yields the same item again.
Advance_Stay(m) == m

\* How far members.next() advances the iterator.
Advance(m) == m + 1

\* take() is None and members.next() is Some(leader): connect to it and
\* write the preamble into the BufStream (lines 57-65).
ConnectCandidate ==
    /\ pc = "loop"
    /\ leader_connection = None
    /\ ~IterDone
    /\ LET leader == order[members + 1]
           c == FreeId(conns)
       IN
        /\ members' = Advance(members)
        /\ drawn' = drawn \cup {leader}
        /\ \/ \* TcpStream::connect(leader) fails
              /\ Return("Io")
              /\ failed' = TRUE
              /\ UNCHANGED <<netVars, openedTo, openCount>>
           \/ \* connected, write_message(preamble) fails
              /\ Return("Io")
              /\ failed' = TRUE
              /\ conns' = Drop(MarkFailed(Connect(conns, c, leader), c), c)
              /\ openedTo' = openedTo \cup {leader}
              /\ openCount' = [openCount EXCEPT ![leader] = Sat(@)]
              /\ UNCHANGED wire
           \/ \* connected and preamble written
              /\ conns' = WritePreamble(Connect(conns, c, leader), c, id)
              /\ wire' = [to |-> c, msg |-> client_connection_preamble(id)]
              /\ openedTo' = openedTo \cup {leader}
              /\ openCount' = [openCount EXCEPT ![leader] = Sat(@)]
              /\ connection' = c
              /\ pc' = "send"
              /\ UNCHANGED <<result, failed>>
    /\ UNCHANGED <<clientVars, entry, message, response, calls, startedWith,
                   reqCount, answers, prevResponse, readOn, prevResult>>

\* write_message(connection, message) and flush (lines 67-68).
SendRequest ==
    /\ pc = "send"
    /\ LET a == conns[connection].addr IN
        \/ \* the write or the flush fails
           /\ Return("Io")
           /\ failed' = TRUE
           /\ conns' = Drop(MarkFailed(conns, connection), connection)
           /\ UNCHANGED <<wire, reqCount>>
        \/ /\ conns' = WriteRequest(conns, connection)
           /\ wire' = [to |-> connection, msg |-> message]
           /\ reqCount' = [reqCount EXCEPT ![a] = Sat(@)]
           /\ pc' = "await"
           /\ UNCHANGED <<connection, result, failed>>
    /\ UNCHANGED <<clientVars, entry, message, members, response, calls,
                   startedWith, drawn, openedTo, openCount, answers,
                   prevResponse, readOn, prevResult>>

\* The server answers and read_message returns its frame (line 69).
ServerReply ==
    /\ pc = "await"
    /\ \E r \in Responses :
        /\ response' = r
        /\ answers' = answers \cup {r.kind}
        /\ conns' = [conns EXCEPT ![connection].last = r.kind]
    /\ prevResponse' = response
    /\ readOn' = connection
    /\ pc' = "interpret"
    /\ UNCHANGED <<clientVars, entry, message, members, connection, result,
                   wire, calls, startedWith, drawn, reqCount, openedTo,
                   openCount, failed, prevResult>>

\* Variant of ReadFail: the connection is put back before returning.
ReadFail_Restore ==
    /\ pc = "await"
    /\ Return("Io")
    /\ failed' = TRUE
    /\ conns' = MarkFailed(conns, connection)
    /\ leader_connection' = connection
    /\ UNCHANGED <<id, cluster, order, entry, message, members, response,
                   wire, calls, startedWith, drawn, reqCount, openedTo,
                   openCount, answers, prevResponse, readOn, prevResult>>

\* Variant of ReadFail: the call goes on with the next candidate.
ReadFail_Continue ==
    /\ pc = "await"
    /\ failed' = TRUE
    /\ conns' = Drop(MarkFailed(conns, connection), connection)
    /\ connection' = None
    /\ pc' = "loop"
    /\ UNCHANGED <<clientVars, entry, message, members, response, result,
                   wire, calls, startedWith, drawn, reqCount, openedTo,
                   openCount, answers, prevResponse, readOn, prevResult>>

\* read_message fails: the peer closed or reset the connection (line 69).
ReadFail ==
    /\ pc = "await"
    /\ Return("Io")
    /\ failed' = TRUE
    /\ conns' = Drop(MarkFailed(conns, connection), connection)
    /\ UNCHANGED <<clientVars, entry, message, members, response, wire,
                   calls, startedWith, drawn, reqCount, openedTo, openCount,
                   answers, prevResponse, readOn, prevResult>>

\* Variant of RootError: the connection is left open and unowned.
RootError_Leak ==
    /\ pc = "interpret"
    /\ response.kind = "Malformed"
    /\ Return("Capnp")
    /\ UNCHANGED <<clientVars, entry, message, members, response, netVars,
                   histVars>>

\* response.get_root() fails (line 70, try!).
RootError ==
    /\ pc = "interpret"
    /\ response.kind = "Malformed"
    /\ Return("Capnp")
    /\ conns' = Drop(conns, connection)
    /\ UNCHANGED <<clientVars, entry, message, members, response, wire,
                   histVars>>

\* Variant of SuccessArm: the connection is not stored.
SuccessArm_NoStore ==
    /\ pc = "interpret"
    /\ response.kind = "Success"
    /\ Return("Ok")
    /\ conns' = Drop(conns, connection)
    /\ UNCHANGED <<clientVars, entry, message, members, response, wire,
                   histVars>>

\* proposal_response::Which::Success (lines 73-77).
SuccessArm ==
    /\ pc = "interpret"
    /\ response.kind = "Success"
    /\ leader_connection' = connection
    /\ Return("Ok")
    /\ UNCHANGED <<id, cluster, order, entry, message, members, response,
                   netVars, histVars>>

\* Variant of UnknownLeaderArm: UnknownLeader is taken for a success.
UnknownLeaderArm_ReturnsOk ==
    /\ pc = "interpret"
    /\ response.kind = "UnknownLeader"
    /\ leader_connection' = connection
    /\ Return("Ok")
    /\ UNCHANGED <<id, cluster, order, entry, message, members, response,
                   netVars, histVars>>

\* Variant of UnknownLeaderArm: the request is sent again on the same
\* connection.
UnknownLeaderArm_Retry ==
    /\ pc = "interpret"
    /\ response.kind = "UnknownLeader"
    /\ pc' = "send"
    /\ UNCHANGED <<clientVars, entry, message, members, connection, response,
                   result, netVars, histVars>>

\* proposal_response::Which::UnknownLeader (lines 78-81).
UnknownLeaderArm ==
    /\ pc = "interpret"
    /\ response.kind = "UnknownLeader"
    /\ pc' = "drop"
    /\ UNCHANGED <<clientVars, entry, message, members, connection, response,
                   result, netVars, histVars>>

\* Variant of RedirectTarget: the client reconnects to the server that
\* redirected it.
RedirectTarget_Same(r, old) == old

\* The address the NotLeader arm connects to.
RedirectTarget(r, old) == r.leader

\* Variant of NotLeaderArm: the redirect uses up an item of the iterator.
NotLeaderArm_Consumes ==
    /\ pc = "interpret"
    /\ response.kind = "NotLeader"
    /\ members' = members + 1
    /\ LET leader == RedirectTarget(response, conns[connection].addr)
           c == FreeId(conns)
       IN
        \/ /\ Return("Io")
           /\ failed' = TRUE
           /\ conns' = Drop(conns, connection)
           /\ UNCHANGED <<leader_connection, wire, openedTo, openCount>>
        \/ /\ Return("Io")
           /\ failed' = TRUE
           /\ conns' = Drop(Drop(MarkFailed(Connect(conns, c, leader), c), c),
                            connection)
           /\ openedTo' = openedTo \cup {leader}
           /\ openCount' = [openCount EXCEPT ![leader] = Sat(@)]
           /\ UNCHANGED <<leader_connection, wire>>
        \/ /\ conns' = WritePreamble(Connect(conns, c, leader), c, id)
           /\ wire' = [to |-> c, msg |-> client_connection_preamble(id)]
           /\ openedTo' = openedTo \cup {leader}
           /\ openCount' = [openCount EXCEPT ![leader] = Sat(@)]
           /\ leader_connection' = c
           /\ pc' = "drop"
           /\ UNCHANGED <<connection, result, failed>>
    /\ UNCHANGED <<id, cluster, order, entry, message, response,
                   calls, startedWith, drawn, reqCount, answers,
                   prevResponse, readOn, prevResult>>

\* proposal_response::Which::NotLeader(leader) (lines 82-88).
NotLeaderArm ==
    /\ pc = "interpret"
    /\ response.kind = "NotLeader"
    /\ LET leader == RedirectTarget(response, conns[connection].addr)
           c == FreeId(conns)
       IN
        \/ \* TcpStream::connect(leader) fails
           /\ Return("Io")
           /\ failed' = TRUE
           /\ conns' = Drop(conns, connection)
           /\ UNCHANGED <<leader_connection, wire, openedTo, openCount>>
        \/ \* connected, write_message(preamble) fails
           /\ Return("Io")
           /\ failed' = TRUE
           /\ conns' = Drop(Drop(MarkFailed(Connect(conns, c, leader), c), c),
                            connection)
           /\ openedTo' = openedTo \cup {leader}
           /\ openCount' = [openCount EXCEPT ![leader] = Sat(@)]
           /\ UNCHANGED <<leader_connection, wire>>
        \/ \* connected and preamble written: the new stream is stored
           /\ conns' = WritePreamble(Connect(conns, c, leader), c, id)
           /\ wire' = [to |-> c, msg |-> client_connection_preamble(id)]
           /\ openedTo' = openedTo \cup {leader}
           /\ openCount' = [openCount EXCEPT ![leader] = Sat(@)]
           /\ leader_connection' = c
           /\ pc' = "drop"
           /\ UNCHANGED <<connection, result, failed>>
    /\ UNCHANGED <<id, cluster, order, entry, message, members, response,
                   calls, startedWith, drawn, reqCount, answers,
                   prevResponse, readOn, prevResult>>

\* Any other response: panic!("Unexpected message type") (lines 70, 91).
UnexpectedArm ==
    /\ pc = "interpret"
    /\ response.kind = "Other"
    /\ pc' = "crashed"
    /\ result' = "panic"
    /\ connection' = None
    /\ conns' = Drop(conns, connection)
    /\ UNCHANGED <<clientVars, entry, message, members, response, wire,
                   histVars>>

\* Variant of EndIteration: the connection of the iteration stays held.
EndIteration_Keep ==
    /\ pc = "drop"
    /\ pc' = "loop"
    /\ UNCHANGED <<clientVars, entry, message, members, connection, response,
                   result, netVars, histVars>>

\* End of the loop body (line 93): the local `connection` is dropped.
EndIteration ==
    /\ pc = "drop"
    /\ conns' = Drop(conns, connection)
    /\ connection' = None
    /\ pc' = "loop"
    /\ UNCHANGED <<clientVars, entry, message, members, response, result,
                   wire, histVars>>

\* The steps of a running call.
Step ==
    \/ TakeExisting
    \/ SearchExhausted
    \/ ConnectCandidate
    \/ SendRequest
    \/ ServerReply
    \/ ReadFail
    \/ RootError
    \/ SuccessArm
    \/ UnknownLeaderArm
    \/ NotLeaderArm
    \/ UnexpectedArm
    \/ EndIteration

Next == ProposeCall \/ Step

Spec == Init /\ [][Next]_vars

\* The call runs on the caller's thread until it returns and every request
\* is answered or fails: a step of a running call is eventually taken.
FairSpec == Spec /\ WF_vars(Step)

\* ------------------------------------------------------------ observations
\* The last call has returned to its caller.
Returned == pc = "idle" /\ result # "none"
\* A call is running.
InCall == pc \notin {"idle", "crashed"}
\* The addresses `members` has not yielded yet.
Remaining == {order[i] : i \in (members + 1)..Len(order)}
\* The retained connection.
Retained == conns[leader_connection]
\* The handles of the connections that are open.
OpenConns == {c \in ConnIds : conns[c].open}
\* The handles the client holds: the retained one and the one in use.
Held == {connection, leader_connection} \ {None}
\* ProposalRequests sent in this call, over all addresses.
RECURSIVE SumOver(_, _)
SumOver(f, S) ==
    IF S = {} THEN 0
    ELSE LET a == CHOOSE x \in S : TRUE IN f[a] + SumOver(f, S \ {a})
Requests == SumOver(reqCount, Addr)

\* ------------------------------------------------------------------ claims
\* C1: propose returns Ok only if, in that same call, a ProposalRequest was
\* sent and the response read to it was Success.
C1_OkOnlyAfterSuccess ==
    (pc = "idle" /\ result = "Ok") =>
        /\ response.kind = "Success"
        /\ "Success" \in answers
        /\ readOn # None
        /\ reqCount[conns[readOn].addr] >= 1

\* A call returned Ok after UnknownLeader and NotLeader answers.
C1_Witness ==
    /\ pc = "idle"
    /\ result = "Ok"
    /\ {"UnknownLeader", "NotLeader"} \subseteq answers

\* C3: a call that starts without a retained connection, in which every
\* answer is UnknownLeader and no connect, write or read fails, returns
\* LeaderSearchExhausted after exactly one ProposalRequest to each address
\* of the cluster, and connects to no address outside the cluster.
C3_Exhaustion ==
    (Returned /\ ~startedWith /\ answers \subseteq {"UnknownLeader"}
        /\ ~failed) =>
        /\ result = "LeaderSearchExhausted"
        /\ \A a \in cluster : reqCount[a] = 1
        /\ \A a \in Addr \ cluster : reqCount[a] = 0
        /\ openedTo = cluster

\* Both members of a two-member cluster answered UnknownLeader.
C3_Witness ==
    /\ Returned
    /\ ~startedWith
    /\ answers = {"UnknownLeader"}
    /\ ~failed
    /\ Cardinality(cluster) = 2
    /\ result = "LeaderSearchExhausted"

C5_RetainedIsSuccessConn ==
    (pc = "idle" /\ result = "Ok") =>
        /\ leader_connection # None
        /\ leader_connection = readOn
        /\ Retained.open
        /\ Retained.last = "Success"
        /\ prevResponse.kind = "NotLeader" =>
               Retained.addr = prevResponse.leader

\* Candidate A answered NotLeader(B), B answered Success, B is retained.
C5_Witness ==
    /\ pc = "idle"
    /\ result = "Ok"
    /\ prevResponse.kind = "NotLeader"
    /\ answers = {"NotLeader", "Success"}
    /\ \E a \in cluster :
        /\ a # prevResponse.leader
        /\ reqCount[a] = 1
        /\ reqCount[prevResponse.leader] = 1
        /\ Retained.addr = prevResponse.leader

\* C6: every open connection has had exactly one ConnectionPreamble written
\* on it, whatever number of ProposalRequests followed; a connection reused
\* by a later call gets a further request and no further preamble.
C6_OnePreamblePerConnection ==
    \A c \in ConnIds :
        conns[c].open => conns[c].pre = 1

\* A retained connection carries its second request and one preamble.
C6_Witness ==
    /\ pc = "await"
    /\ startedWith
    /\ conns[connection].req = 2
    /\ conns[connection].pre = 1
    /\ wire = [to |-> connection, msg |-> message]

\* C7: after a NotLeader(B) answer, the next ProposalRequest of the call is
\* the first request on a connection to B opened in this call, on which the
\* preamble was written, whether or not B is in the cluster; and a call in
\* which the last answer is Success returns Ok.
C7_RedirectFollow ==
    /\ (pc = "await" /\ response.kind = "NotLeader") =>
        /\ conns[connection].open
        /\ conns[connection].addr = response.leader
        /\ conns[connection].pre = 1
        /\ conns[connection].req = 1
        /\ response.leader \in openedTo
    /\ (Returned /\ response.kind = "Success") => result = "Ok"

\* A redirect to an address outside the cluster ended in Ok.
C7_Witness ==
    /\ Returned
    /\ result = "Ok"
    /\ prevResponse.kind = "NotLeader"
    /\ prevResponse.leader \notin cluster
    /\ Retained.addr = prevResponse.leader
    /\ Retained.req = 1

\* C8 as stated: a response frame of another shape makes propose return a
\* ProtocolError to its caller; the process does not crash.
C8_ProtocolError ==
    /\ pc # "crashed"
    /\ (response.kind = "Other" /\ pc # "interpret") =>
           (pc = "idle" /\ result = "ProtocolError")

\* C9: in every call the addresses drawn so far and the addresses the
\* iterator can still yield make up the whole cluster, so a call starts
\* with the whole cluster to draw from, whatever the calls before it did.
C9_FullSetEachCall ==
    /\ drawn \cup Remaining = cluster
    /\ drawn \cap Remaining = {}
    /\ (pc = "loop" /\ Cardinality(answers) = 0 /\ ~failed) => drawn = {}

\* A call returned LeaderSearchExhausted and the next call contacted both
\* members of the cluster and returned Ok.
C9_Witness ==
    /\ Returned
    /\ prevResult = "LeaderSearchExhausted"
    /\ result = "Ok"
    /\ ~startedWith
    /\ Cardinality(cluster) = 2
    /\ \A a \in cluster : reqCount[a] = 1

\* C10: after a call that returned an error the retained connection is
\* empty, or is an open connection on which no operation failed and whose
\* last answer is Success or which is a redirect connection not yet used.
C10_AfterError ==
    (Returned /\ result # "Ok") =>
        \/ leader_connection = None
        \/ /\ Retained.open
           /\ ~Retained.failed
           /\ \/ Retained.last = "Success"
              \/ Retained.last = "none" /\ Retained.pre = 1 /\ Retained.req = 0

\* A call that started on a retained connection returned an error.
C10_Witness ==
    /\ Returned
    /\ startedWith
    /\ result \in {"Io", "LeaderSearchExhausted"}
    /\ failed \/ "UnknownLeader" \in answers

\* C2 as stated: every propose call eventually ends.
C2_Original == InCall ~> ~InCall

\* C2: a propose call draws each candidate at most once, and it eventually
\* ends or reads another NotLeader answer: it runs forever only by
\* following redirects forever.
C2_EndsOrRedirected ==
    /\ [](members <= Cardinality(cluster))
    /\ InCall ~> (~InCall \/ (pc = "interpret" /\ response.kind = "NotLeader"))

\* A call that was redirected and swept the whole cluster has returned.
C2_Witness ==
    /\ Returned
    /\ "NotLeader" \in answers
    /\ members = Cardinality(cluster)
    /\ Cardinality(cluster) = 2

\* C11 as stated: within one call no address is sent the ProposalRequest
\* twice.
C11_Original == \A a \in Addr : reqCount[a] <= 1

\* C11: within one call the iterator yields no address twice, so after an
\* UnknownLeader answer the next candidate is one not yet drawn; an address
\* is sent the request a second time only when it was first reached over
\* the retained connection or named by a redirect.
C11_NoCandidateTwice ==
    /\ Cardinality(drawn) = members
    /\ \A a \in Addr : openCount[a] = 2 => "NotLeader" \in answers
    /\ ("NotLeader" \notin answers /\ ~startedWith) =>
           \A a \in Addr : reqCount[a] <= 1
    /\ ("NotLeader" \notin answers /\ startedWith) =>
           /\ \A a \in Addr : reqCount[a] <= 2
           /\ Cardinality({a \in Addr : reqCount[a] = 2}) <= 1

\* A call reused the connection to S1, S1 answered UnknownLeader, and S1
\* was drawn and sent the request again before LeaderSearchExhausted.
C11_Witness ==
    /\ Returned
    /\ result = "LeaderSearchExhausted"
    /\ startedWith
    /\ answers = {"UnknownLeader"}
    /\ Cardinality(cluster) = 2
    /\ \E a \in cluster : reqCount[a] = 2 /\ openCount[a] = 1

\* C12: a failed connect, write, flush or read ends the call at once with
\* that error: once an operation has failed in a call the call has returned
\* Io, and no candidate is drawn after the failure.
C12_FailureAborts ==
    failed => (pc = "idle" /\ result = "Io" /\ connection = None)

\* A stale retained connection failed and no candidate was contacted,
\* though the cluster has members.
C12_Witness ==
    /\ Returned
    /\ failed
    /\ startedWith
    /\ drawn = {}
    /\ cluster # {}
    /\ Requests <= 1

\* C13 as stated: LeaderSearchExhausted is returned only after at least one
\* UnknownLeader answer in that call, the empty cluster included.
C13_Original ==
    (Returned /\ result = "LeaderSearchExhausted") =>
        "UnknownLeader" \in answers

\* C13: LeaderSearchExhausted is returned only when the iterator is empty
\* and every address of the cluster was drawn and sent a request in that
\* call; the answer read last is then UnknownLeader, except for an empty
\* cluster and no retained connection, where it is returned at once with
\* no request sent.
C13_ExhaustedOnlyWhen ==
    (Returned /\ result = "LeaderSearchExhausted") =>
        /\ IterDone
        /\ leader_connection = None
        /\ \A a \in cluster : a \in drawn /\ reqCount[a] >= 1
        /\ \/ response.kind = "UnknownLeader"
           \/ cluster = {} /\ ~startedWith /\ answers = {} /\ Requests = 0

\* The empty cluster: LeaderSearchExhausted with no request sent.
C13_Witness ==
    /\ Returned
    /\ result = "LeaderSearchExhausted"
    /\ cluster = {}
    /\ answers = {}

\* C14: handling a NotLeader answer leaves the candidate iterator where it
\* is, and the candidate connected to after an UnknownLeader answer is the
\* next one of the iteration order, whether or not a redirect came before:
\* a redirect uses up no candidate.
C14_RedirectKeepsIterator ==
    /\ [][(pc = "interpret" /\ response.kind = "NotLeader") =>
              (members' = members /\ drawn' = drawn)]_vars
    /\ []((pc = "send" /\ response.kind = "UnknownLeader") =>
              (/\ members = Cardinality(drawn)
               /\ conns[connection].addr = order[members]
               /\ conns[connection].req = 0))

\* A answered NotLeader(B), B answered UnknownLeader, and the call went on
\* to the second candidate of the cluster.
C14_Witness ==
    /\ pc = "send"
    /\ response.kind = "UnknownLeader"
    /\ prevResponse.kind = "NotLeader"
    /\ ~startedWith
    /\ Requests = 2
    /\ members = 2
    /\ conns[connection].addr = order[2]

\* C15 as stated: the client never holds more than one connection handle,
\* the retained one and the one in use counted together.
C15_Original == Cardinality(Held) <= 1

\* C15: the client holds at most one open connection, except between the
\* storing of a redirect connection and the end of that loop iteration,
\* where it holds two: the connection the NotLeader answer was read on and
\* the new one to the redirect target.
C15_AtMostOneButRedirect ==
    /\ \A c \in Held : conns[c].open
    /\ Cardinality(Held) <= 2
    /\ Cardinality(Held) = 2 =>
        /\ pc = "drop"
        /\ response.kind = "NotLeader"
        /\ conns[leader_connection].addr = response.leader
        /\ conns[leader_connection].req = 0
        /\ readOn = connection

\* The old connection and the redirect connection are both held.
C15_Witness ==
    /\ pc = "drop"
    /\ Cardinality(Held) = 2
    /\ Cardinality(OpenConns) = 2

\* C16: a connection that is closed has nothing written on it, the
\* connection a running call uses is open, and every open connection is
\* held by the client; so when propose has returned, or has panicked, the
\* only connection that can be open is the retained one.
C16_NoLeak ==
    /\ \A c \in ConnIds : ~conns[c].open => conns[c] = ClosedConn
    /\ pc \in {"send", "await", "interpret", "drop"} =>
           (connection # None /\ conns[connection].open)
    /\ OpenConns \subseteq Held
    /\ pc \in {"idle", "crashed"} => OpenConns = {leader_connection} \ {None}

\* A call that discarded connections after UnknownLeader and after a
\* redirect has returned an error and no connection is open.
C16_Witness ==
    /\ Returned
    /\ result # "Ok"
    /\ {"UnknownLeader", "NotLeader"} \subseteq answers
    /\ OpenConns = {}

\* C17: no step of propose changes the client identity or the cluster, and
\* every preamble written, on a candidate connection or on a redirect
\* connection, in any call, carries the identity of the client.
C17_IdentityAndClusterFixed ==
    /\ [][id' = id /\ cluster' = cluster /\ order' = order]_vars
    /\ [](\A c \in ConnIds : conns[c].open => conns[c].preId = id)
    /\ [](wire.msg.kind = "ConnectionPreamble" =>
              wire.msg = client_connection_preamble(id))

\* In a third call a preamble has just been written on a redirect
\* connection.
C17_Witness ==
    /\ calls = 3
    /\ pc = "drop"
    /\ response.kind = "NotLeader"
    /\ wire = [to |-> leader_connection,
               msg |-> client_connection_preamble(id)]
    /\ Retained.preId = id

\* C18: the message just written on the connection in use is the
\* ProposalRequest carrying the entry of the running call, on a reused
\* connection, on a candidate connection and on a redirect connection.
C18_RequestCarriesEntry ==
    pc = "await" =>
        /\ wire = [to |-> connection, msg |-> proposal_request(entry)]
        /\ message = proposal_request(entry)

\* A later call with another entry sent it on the reused connection, on a
\* candidate connection after UnknownLeader and now on a redirect
\* connection.
C18_Witness ==
    /\ pc = "await"
    /\ calls >= 2
    /\ entry = "Bees"
    /\ startedWith
    /\ answers = {"UnknownLeader", "NotLeader"}
    /\ response.kind = "NotLeader"
    /\ drawn # {}
    /\ wire.msg.entry = "Bees"

\* C19: when a call has returned, the retained connection is present if
\* and only if the call returned Ok.
C19_RetainedIffOk ==
    Returned => (leader_connection # None <=> result = "Ok")

\* A call that started with a retained connection and stored a redirect
\* connection returned an error: nothing is retained.
C19_Witness ==
    /\ Returned
    /\ startedWith
    /\ "NotLeader" \in answers
    /\ result \in {"Io", "LeaderSearchExhausted"}
    /\ leader_connection = None

\* C20: in a call with no NotLeader answer at most one connection is
\* opened per address of the cluster and none elsewhere, and at most
\* |cluster| ProposalRequests are sent, or |cluster| + 1 when the call
\* started with a retained connection.
C20_BoundedWithoutRedirect ==
    "NotLeader" \notin answers =>
        /\ \A a \in cluster : openCount[a] <= 1
        /\ \A a \in Addr \ cluster : openCount[a] = 0
        /\ Requests <= Cardinality(cluster) + (IF startedWith THEN 1 ELSE 0)

\* A call that started with a retained connection sent |cluster| + 1
\* requests.
C20_Witness ==
    /\ Returned
    /\ startedWith
    /\ "NotLeader" \notin answers
    /\ Cardinality(cluster) = 2
    /\ Requests = 3
    /\ \A a \in cluster : openCount[a] = 1

====
